---- MODULE Spec2Model ----
(***************************************************************************)
(* A state-machine model of the rentmanager application (src/app).        *)
(*                                                                         *)
(* The store is the relational database behind app/models.py (Inmueble,   *)
(* Gasto, the Inmueble.socios many-to-many relation), the framework's     *)
(* process-wide cache used by the dashboard, and the session of the       *)
(* browser that issues the requests.  Every view of app/views.py is one   *)
(* action that runs the whole request.                                    *)
(*                                                                         *)
(* Units.  A Decimal is a record [c, e] standing for c * 10^-e.           *)
(***************************************************************************)
EXTENDS Integers, Sequences, FiniteSets, TLC

VARIABLES
    inmuebles,        \* table app_inmueble: id -> row (with its socios set)
    nextInmuebleId,   \* the table's id sequence
    gastos,           \* table app_gasto: id -> row
    nextGastoId,      \* the table's id sequence
    session,          \* request.user of the browser: a user or Anon
    cache,            \* django.core.cache: key -> cached value or None
    request,          \* the request that response answers
    response,         \* the last response sent
    calc,             \* an Inmueble instance in memory and its derived figures
    participacion,    \* table app_socio: Socio -> porcentaje_participacion
    declaraciones,    \* table app_declaraciontrimestral: id -> row
    nextDeclaracionId \* the table's id sequence

\* the tables that only the admin site (app/admin.py) writes
admin_tables == <<participacion, declaraciones, nextDeclaracionId>>

vars == <<inmuebles, nextInmuebleId, gastos, nextGastoId, session, cache,
          request, response, calc, admin_tables>>

store == <<inmuebles, nextInmuebleId, gastos, nextGastoId>>

None == "None"
Anon == "AnonymousUser"

\* Python's None where a string is expected (strings are character sequences)
NoneStr == <<"<None>">>

(***************************************************************************)
(* Bounds of the model.                                                    *)
(***************************************************************************)
MaxInmuebles == 2
MaxGastos == 1
MaxNextLen == 3

(***************************************************************************)
(* The users of django.contrib.auth and the Socio rows, which the          *)
(* application routes never create or change (only the admin site does).   *)
(*   ana   an owner (Socio row), not staff                                 *)
(*   sam   staff, and an owner too                                         *)
(*   root  staff without Socio row                                         *)
(*   guest neither staff nor owner                                         *)
(*   zoe   a deactivated account (is_active = False)                       *)
(***************************************************************************)
Users == {"ana", "sam", "root", "guest", "zoe"}

is_staff(u) == u \in {"sam", "root"}

is_active(u) == u \in Users /\ u # "zoe"

is_authenticated(u) == u \in Users

\* Socio.usuario is one-to-one: a Socio row is named by its user.
Socios == {"ana", "sam"}

UserId(u) ==
    CASE u = "ana" -> 1 [] u = "sam" -> 2 [] u = "root" -> 3
      [] u = "guest" -> 4 [] u = "zoe" -> 5

\* User.username, as a sequence of characters.
Username(u) ==
    CASE u = "ana" -> <<"a">> [] u = "sam" -> <<"s">> [] u = "root" -> <<"r">>
      [] u = "guest" -> <<"g">> [] u = "zoe" -> <<"z">>

\* User.check_password
check_password(u, password) == password = <<"pw", u>>

(***************************************************************************)
(* Python strings as sequences of characters.                              *)
(***************************************************************************)
RECURSIVE lstrip(_)
lstrip(s) == IF s # <<>> /\ Head(s) = " " THEN lstrip(Tail(s)) ELSE s

RECURSIVE rstrip(_)
rstrip(s) ==
    IF s # <<>> /\ s[Len(s)] = " " THEN rstrip(SubSeq(s, 1, Len(s) - 1)) ELSE s

strip(s) == rstrip(lstrip(s))

startswith(s, ch) == s # <<>> /\ s[1] = ch

\* '//' in s
contains_double_slash(s) ==
    \E k \in 1..(Len(s) - 1) : s[k] = "/" /\ s[k + 1] = "/"

\* Python truthiness of an optional string
truthy(s) == s # NoneStr /\ s # <<>>

\* a or b
py_or(a, b) == IF truthy(a) THEN a ELSE b

(***************************************************************************)
(* Requests.                                                               *)
(***************************************************************************)
\* a request for a view: its HTTP method and the primary key in its URL
Request(view, method, pk) == [view |-> view, method |-> method, pk |-> pk]

NoRequest == Request(None, None, 0)

\* a request for login_view, with the parameters the view reads
LoginRequest(method, username, password, get_next, post_next) ==
    [view |-> "login", method |-> method, pk |-> 0, username |-> username,
     password |-> password, get_next |-> get_next, post_next |-> post_next]

(***************************************************************************)
(* Responses.                                                              *)
(***************************************************************************)
\* redirect(to), with the flash message queued by messages.error/success
Redirect(to, level, msg) ==
    [status |-> "redirect", to |-> to, level |-> level, msg |-> msg]

\* render(request, template, ...); msg is the error shown on the page
Render(template, error) ==
    [status |-> "render", to |-> <<template>>, level |-> None, msg |-> error]

\* render(request, template, context), with the context the view computed
RenderContext(template, context) ==
    [status |-> "render", to |-> <<template>>, level |-> None, msg |-> None,
     context |-> context]

\* JsonResponse(data)
JsonResponse(data) ==
    [status |-> "json", to |-> NoneStr, level |-> None, msg |-> None, context |-> data]

\* Http404 raised by get_object_or_404 / get_object
NotFound == [status |-> "not_found", to |-> NoneStr, level |-> None, msg |-> None]

\* an exception that leaves the view
ServerError ==
    [status |-> "server_error", to |-> NoneStr, level |-> None, msg |-> None]

NoResponse == [status |-> None, to |-> NoneStr, level |-> None, msg |-> None]

\* LoginRequiredMixin / login_required(login_url="login")
RedirectToLogin == Redirect(<<"login">>, None, None)

PermissionRedirect(msg) == Redirect(<<"inmuebles_list">>, "error", msg)

(***************************************************************************)
(* Access control.                                                         *)
(***************************************************************************)
\* Socio.objects.get(usuario=user): the row, or None for Socio.DoesNotExist
SocioOf(user) == IF user \in Socios THEN user ELSE None

AllInmuebles == DOMAIN inmuebles

\* socio.inmuebles: the reverse side of Inmueble.socios
InmueblesOfSocio(socio) == {i \in DOMAIN inmuebles : socio \in inmuebles[i].socios}

\* get_user_inmuebles with the is_staff test of the except branch left out
get_user_inmuebles_without_staff_test(user) ==
    IF SocioOf(user) # None
    THEN InmueblesOfSocio(SocioOf(user))
    ELSE AllInmuebles

get_user_inmuebles(user) ==
    IF SocioOf(user) # None
    THEN InmueblesOfSocio(SocioOf(user))
    ELSE IF is_staff(user) THEN AllInmuebles ELSE {}

\* check_inmueble_permission with the inmuebles=inmueble filter left out
check_inmueble_permission_any_socio(user, pk) ==
    \/ is_staff(user)
    \/ \E s \in Socios : s = user

check_inmueble_permission(user, pk) ==
    \/ is_staff(user)
    \/ \E s \in Socios : s = user /\ pk \in DOMAIN inmuebles /\ s \in inmuebles[pk].socios

get_cache_key(user_id, key_name) == <<"user_", user_id, "_", key_name>>

\* The key under which cache_page stores the response of a GET of
\* /api/dashboard-data/.  The decorator builds it from the URL and from the
\* headers the response names in Vary when the decorator sees it; the
\* JsonResponse names none (SessionMiddleware adds "Vary: Cookie" after the
\* decorator has stored the response), so the key is the same for every
\* browser.
page_cache_key == <<"views.decorators.cache.cache_page", "/api/dashboard-data/">>

\* the keys of the default cache
CacheKeys == {get_cache_key(UserId(u), "dashboard_data") : u \in Users} \cup {page_cache_key}

(***************************************************************************)
(* login_view                                                              *)
(***************************************************************************)
UserByUsername(name) == {u \in Users : Username(u) = name}

\* login_target with the '//' test left out
login_target_without_double_slash_test(get_next, post_next) ==
    LET next_url == py_or(get_next, post_next)
        checked == IF truthy(next_url) /\ ~startswith(next_url, "/")
                   THEN NoneStr ELSE next_url
    IN  IF truthy(checked) THEN checked ELSE <<"dashboard">>

login_target(get_next, post_next) ==
    LET next_url == py_or(get_next, post_next)
        checked == IF truthy(next_url)
                      /\ (~startswith(next_url, "/") \/ contains_double_slash(next_url))
                   THEN NoneStr ELSE next_url
    IN  IF truthy(checked) THEN checked ELSE <<"dashboard">>

login_view(method, username, password, get_next, post_next) ==
    /\ UNCHANGED <<inmuebles, nextInmuebleId, gastos, nextGastoId, cache, calc, admin_tables>>
    /\ IF is_authenticated(session)
       THEN /\ response' = Redirect(<<"dashboard">>, None, None)
            /\ UNCHANGED session
       ELSE IF method = "POST"
       THEN LET name == strip(py_or(username, <<>>))
                pw == py_or(password, <<>>)
                found == UserByUsername(name)
                user == CHOOSE u \in found : TRUE
            IN  IF found # {} /\ check_password(user, pw) /\ is_active(user)
                THEN /\ session' = user
                     /\ response' = Redirect(login_target(get_next, post_next), None, None)
                ELSE /\ response' = Render("login.html", "Credenciales incorrectas")
                     /\ UNCHANGED session
       ELSE /\ response' = Render("login.html", None)
            /\ UNCHANGED session

\* The session cookie expires or is dropped by the browser.
SessionEnd ==
    /\ session # Anon
    /\ session' = Anon
    /\ request' = NoRequest
    /\ UNCHANGED <<inmuebles, nextInmuebleId, gastos, nextGastoId, cache, response, calc, admin_tables>>

(***************************************************************************)
(* decimal.Decimal.  A value is [c, e] = c * 10^-e, kept in the form with  *)
(* no trailing zero in c (Decimal compares by value, Decimal('9600.00') == *)
(* Decimal('9600')).  The fields are bounded by max_digits, far below the  *)
(* context precision of 28 digits, so no operation rounds.                 *)
(***************************************************************************)
RECURSIVE Pow10(_)
Pow10(n) == IF n <= 0 THEN 1 ELSE 10 * Pow10(n - 1)

RECURSIVE Norm(_)
Norm(d) ==
    IF d.c = 0 THEN [c |-> 0, e |-> 0]
    ELSE IF d.c % 10 = 0 THEN Norm([c |-> d.c \div 10, e |-> d.e - 1])
    ELSE d

Dec(c, e) == Norm([c |-> c, e |-> e])

\* Decimal('0')
Zero == Dec(0, 0)

\* the coefficient of d at exponent e >= d.e
Scaled(d, e) == d.c * Pow10(e - d.e)

MaxExp(a, b) == IF a.e >= b.e THEN a.e ELSE b.e

DecAdd(a, b) == Dec(Scaled(a, MaxExp(a, b)) + Scaled(b, MaxExp(a, b)), MaxExp(a, b))

DecSub(a, b) == Dec(Scaled(a, MaxExp(a, b)) - Scaled(b, MaxExp(a, b)), MaxExp(a, b))

DecMul(a, b) == Dec(a.c * b.c, a.e + b.e)

\* Decimal * int
DecMulInt(a, n) == Dec(a.c * n, a.e)

\* Decimal / 100
DecDiv100(a) == Dec(a.c, a.e + 2)

DecLe(a, b) == Scaled(a, MaxExp(a, b)) <= Scaled(b, MaxExp(a, b))

\* Socio.porcentaje_participacion: default=100
DefaultParticipacion == Dec(100, 0)

\* a column that holds no value (an unsaved instance's renta_mensual)
Null == [null |-> TRUE]

(***************************************************************************)
(* models.Inmueble: the derived figures of an instance.                    *)
(***************************************************************************)
\* renta_anual_bruta without the twelve months
renta_anual_bruta_of_one_month(self) ==
    IF self.renta_mensual = Null THEN Zero
    ELSE self.renta_mensual

renta_anual_bruta(self) ==
    IF self.renta_mensual = Null THEN Zero
    ELSE DecMulInt(self.renta_mensual, 12)

iva_total(self) ==
    IF self.renta_mensual = Null THEN Zero
    ELSE DecMul(renta_anual_bruta(self), DecDiv100(self.iva_porcentaje))

irpf_total(self) ==
    IF self.renta_mensual = Null THEN Zero
    ELSE DecMul(renta_anual_bruta(self), DecDiv100(self.irpf_porcentaje))

\* renta_anual_neta with iva_total subtracted in place of irpf_total
renta_anual_neta_minus_iva(self) ==
    IF self.renta_mensual = Null THEN Zero
    ELSE DecSub(renta_anual_bruta(self), iva_total(self))

renta_anual_neta(self) ==
    IF self.renta_mensual = Null THEN Zero
    ELSE DecSub(renta_anual_bruta(self), irpf_total(self))

\* the columns of a row written by InmuebleForm, and Inmueble.activo
InmuebleRow(form, activo) ==
    [renta_mensual |-> form.renta_mensual,
     iva_porcentaje |-> form.iva_porcentaje,
     irpf_porcentaje |-> form.irpf_porcentaje,
     activo |-> activo,
     socios |-> form.socios]

(***************************************************************************)
(* forms.InmuebleForm and forms.GastoForm: the posted data and is_valid(). *)
(***************************************************************************)
RECURSIVE NumDigits(_)
NumDigits(n) == IF n < 10 THEN 1 ELSE 1 + NumDigits(n \div 10)

Abs(n) == IF n < 0 THEN -n ELSE n

\* digits before the decimal point, as DecimalValidator counts them
WholeDigits(d) ==
    IF d.c = 0 \/ NumDigits(Abs(d.c)) <= d.e THEN 0 ELSE NumDigits(Abs(d.c)) - d.e

\* DecimalField(max_digits, decimal_places), a required field
DecimalFieldValid(d, max_digits, decimal_places) ==
    /\ d # Null
    /\ d.e <= decimal_places
    /\ WholeDigits(d) <= max_digits - decimal_places

\* Inmueble.renta_mensual = DecimalField(max_digits=10, decimal_places=2)
RentaMaxDigits == 10
\* Inmueble.iva_porcentaje, irpf_porcentaje = DecimalField(max_digits=5, ...)
PorcentajeMaxDigits == 5
\* decimal_places=2 of every DecimalField of the models
DecimalPlaces == 2

InmuebleFormValid(form) ==
    /\ DecimalFieldValid(form.renta_mensual, RentaMaxDigits, DecimalPlaces)
    /\ DecimalFieldValid(form.iva_porcentaje, PorcentajeMaxDigits, DecimalPlaces)
    /\ DecimalFieldValid(form.irpf_porcentaje, PorcentajeMaxDigits, DecimalPlaces)
    /\ form.socios \subseteq Socios

\* Gasto.cantidad = DecimalField(max_digits=10, decimal_places=2)
GastoFormValid(form) ==
    DecimalFieldValid(form.cantidad, RentaMaxDigits, DecimalPlaces)

\* The data a browser posts to the property form.
InmuebleForms ==
    [renta_mensual : {Null, Dec(800, 0)},
     iva_porcentaje : {Dec(21, 0)},
     irpf_porcentaje : {Dec(19, 0)},
     socios : SUBSET Socios]

\* The data a browser posts to the expense form.
GastoForms ==
    [cantidad : {Null, Dec(500, 0)}, categoria : {"OTRO"}, fecha : {<<2024, 1, 15>>}]

Methods == {"GET", "POST"}

DeleteMethods == {"GET", "POST", "DELETE"}

(***************************************************************************)
(* The cache and the dashboard aggregates.                                 *)
(***************************************************************************)
\* cache.get(key) of a key that is not set
Miss == [miss |-> TRUE]

cache_delete(key) == [cache EXCEPT ![key] = Miss]

UserCacheKey(user) == get_cache_key(UserId(user), "dashboard_data")

\* inmueble.gastos: the Gasto rows of a property
GastosOf(pk) == {g \in DOMAIN gastos : gastos[g].inmueble = pk}

RECURSIVE SumCantidad(_)
SumCantidad(gs) ==
    IF gs = {} THEN Zero
    ELSE LET g == CHOOSE x \in gs : TRUE
         IN  DecAdd(gastos[g].cantidad, SumCantidad(gs \ {g}))

\* gastos_totales with the rows of every property summed
gastos_totales_of_all_rows(self) ==
    IF self.pk = 0 THEN Zero ELSE SumCantidad(DOMAIN gastos)

\* Inmueble.gastos_totales; self.pk is 0 for the None of an unsaved instance
\* (the id sequence starts at 1).  sum([...]) or Decimal('0') is the sum,
\* with Decimal('0') for the int 0 of an empty list.
gastos_totales(self) ==
    IF self.pk = 0 THEN Zero ELSE SumCantidad(GastosOf(self.pk))

\* renta_neta_con_gastos without the test of renta_mensual
renta_neta_con_gastos_unguarded(self) ==
    DecSub(renta_anual_neta(self), gastos_totales(self))

\* Inmueble.renta_neta_con_gastos
renta_neta_con_gastos(self) ==
    IF self.renta_mensual = Null THEN Zero
    ELSE DecSub(renta_anual_neta(self), gastos_totales(self))

RECURSIVE SumOver(_, _)
SumOver(f, S) ==
    IF S = {} THEN Zero
    ELSE LET x == CHOOSE y \in S : TRUE
         IN  DecAdd(f[x], SumOver(f, S \ {x}))

\* the rows of the grouped join of a property with its expenses that
\* aggregate() sums over: one per distinct amount, one if it has none
JoinAmounts(pk) == {gastos[g].cantidad : g \in GastosOf(pk)}

JoinRows(pk) == IF GastosOf(pk) = {} THEN 1 ELSE Cardinality(JoinAmounts(pk))

RECURSIVE SumSet(_)
SumSet(ds) ==
    IF ds = {} THEN Zero
    ELSE LET d == CHOOSE x \in ds : TRUE IN DecAdd(d, SumSet(ds \ {d}))

\* the context dictionary that dashboard() builds on a cache miss
dashboard_context(user) ==
    LET act == {pk \in get_user_inmuebles(user) : inmuebles[pk].activo}
    IN  [renta_bruta_total |->
            SumOver([pk \in act |->
                        DecMulInt(renta_anual_bruta(inmuebles[pk]), JoinRows(pk))], act),
         gastos_totales |-> SumOver([pk \in act |-> SumSet(JoinAmounts(pk))], act),
         num_inmuebles |-> Cardinality(act),
         renta_neta_total |-> SumOver([pk \in act |-> renta_anual_neta(inmuebles[pk])], act),
         iva_total |-> SumOver([pk \in act |-> iva_total(inmuebles[pk])], act),
         irpf_total |-> SumOver([pk \in act |-> irpf_total(inmuebles[pk])], act),
         inmuebles |-> [pk \in act |->
                          [renta_bruta |-> renta_anual_bruta(inmuebles[pk]),
                           renta_neta |-> renta_anual_neta(inmuebles[pk]),
                           iva |-> iva_total(inmuebles[pk]),
                           irpf |-> irpf_total(inmuebles[pk]),
                           gastos |-> SumCantidad(GastosOf(pk))]]]

\* what dashboard() renders for the user in the current state
dashboard_rendered(user) ==
    IF cache[UserCacheKey(user)] # Miss
    THEN cache[UserCacheKey(user)]
    ELSE dashboard_context(user)

\* dashboard, api_dashboard_data and reportes pass to only() the names
\* 'tipo_iva' and 'tipo_irpf', which are not fields of Inmueble.  What the
\* evaluation of such a queryset does is decided by the installed Django:
\* the names are looked up when the query is compiled and the lookup raises
\* FieldDoesNotExist; a build that did not look them up would load the rows.
OnlyOutcomes == {"loaded", "FieldDoesNotExist"}

\* dashboard: login_required, the cached context if there is one, else the
\* context computed, stored in the cache and rendered
dashboard(only_outcome) ==
    /\ UNCHANGED <<inmuebles, nextInmuebleId, gastos, nextGastoId, session, calc, admin_tables>>
    /\ IF ~is_authenticated(session)
       THEN /\ response' = RedirectToLogin
            /\ UNCHANGED cache
       ELSE IF cache[UserCacheKey(session)] = Miss /\ only_outcome = "FieldDoesNotExist"
       THEN /\ response' = ServerError
            /\ UNCHANGED cache
       ELSE /\ response' = Render("dashboard.html", None)
            /\ cache' = [cache EXCEPT ![UserCacheKey(session)] = dashboard_rendered(session)]

\* cache.set(cache_key, context, 300): the entry expires after 300 seconds
CacheTimeout == 300

CacheExpire ==
    /\ \E k \in CacheKeys : /\ cache[k] # Miss
                            /\ cache' = cache_delete(k)
    /\ request' = NoRequest
    /\ UNCHANGED <<inmuebles, nextInmuebleId, gastos, nextGastoId, session, response, calc, admin_tables>>

(***************************************************************************)
(* The views.  request.user is the session's user.  A view decorated with  *)
(* transaction.atomic commits what it wrote when it returns a response and *)
(* rolls back when an exception leaves it.                                 *)
(***************************************************************************)
\* dispatch_permission with the result of check_inmueble_permission ignored
dispatch_permission_unchecked(pk) ==
    IF is_authenticated(session) THEN "granted" ELSE "error"

\* dispatch_permission that grants every owner every property
dispatch_permission_for_any_owner(pk) ==
    IF is_authenticated(session)
    THEN IF is_staff(session) \/ SocioOf(session) # None THEN "granted" ELSE "denied"
    ELSE "error"

\* check_inmueble_permission(request.user, inmueble) as the dispatch methods
\* call it, before LoginRequiredMixin has looked at the user: "error" when
\* request.user is AnonymousUser, which the Socio query cannot take as the
\* value of usuario (TypeError).
dispatch_permission(pk) ==
    IF is_authenticated(session)
    THEN IF check_inmueble_permission(session, pk) THEN "granted" ELSE "denied"
    ELSE "error"

\* InmuebleCreateView.form_valid
InmuebleCreate_form_valid(form) ==
    LET pk == nextInmuebleId
        socio == SocioOf(session)
        saved == InmuebleRow(form, TRUE)
        assigned == [saved EXCEPT !.socios = @ \cup {socio}]
    IN  /\ nextInmuebleId <= MaxInmuebles
        /\ nextInmuebleId' = nextInmuebleId + 1
        /\ UNCHANGED <<gastos, nextGastoId, session, calc, admin_tables>>
        /\ IF socio # None
           THEN /\ inmuebles' = (pk :> assigned) @@ inmuebles
                /\ cache' = cache_delete(UserCacheKey(session))
                /\ response' = Redirect(<<"inmuebles_list">>, "success", "Inmueble creado exitosamente")
           ELSE IF ~is_staff(session)
           THEN /\ inmuebles' = (pk :> saved) @@ inmuebles
                /\ UNCHANGED cache
                /\ response' = PermissionRedirect("No tienes permiso para crear inmuebles")
           ELSE /\ inmuebles' = (pk :> saved) @@ inmuebles
                /\ cache' = cache_delete(UserCacheKey(session))
                /\ response' = Redirect(<<"inmuebles_list">>, "success", "Inmueble creado exitosamente")

\* InmuebleCreateView: LoginRequiredMixin, then CreateView's get/post
InmuebleCreateView(method, form) ==
    IF ~is_authenticated(session)
    THEN /\ response' = RedirectToLogin
         /\ UNCHANGED <<inmuebles, nextInmuebleId, gastos, nextGastoId, session, cache, calc, admin_tables>>
    ELSE IF method = "GET" \/ ~InmuebleFormValid(form)
    THEN /\ response' = Render("inmueble_form.html",
                                IF method = "GET" THEN None ELSE "form errors")
         /\ UNCHANGED <<inmuebles, nextInmuebleId, gastos, nextGastoId, session, cache, calc, admin_tables>>
    ELSE InmuebleCreate_form_valid(form)

\* InmuebleUpdateView.form_valid
InmuebleUpdate_form_valid(pk, form) ==
    /\ inmuebles' = [inmuebles EXCEPT ![pk] = InmuebleRow(form, @.activo)]
    /\ cache' = cache_delete(UserCacheKey(session))
    /\ response' = Redirect(<<"inmueble_detail", ToString(pk)>>, "success", "Inmueble actualizado")
    /\ UNCHANGED <<nextInmuebleId, gastos, nextGastoId, session, calc, admin_tables>>

\* InmuebleUpdateView: dispatch, then UpdateView's get/post
InmuebleUpdateView(pk, method, form) ==
    IF pk \notin DOMAIN inmuebles \/ dispatch_permission(pk) # "granted"
       \/ method = "GET" \/ ~InmuebleFormValid(form)
    THEN /\ response' =
              IF pk \notin DOMAIN inmuebles THEN NotFound
              ELSE IF dispatch_permission(pk) = "error" THEN ServerError
              ELSE IF dispatch_permission(pk) = "denied"
              THEN PermissionRedirect("No tienes permiso para editar este inmueble")
              ELSE Render("inmueble_form.html",
                          IF method = "GET" THEN None ELSE "form errors")
         /\ UNCHANGED <<inmuebles, nextInmuebleId, gastos, nextGastoId, session, cache, calc, admin_tables>>
    ELSE InmuebleUpdate_form_valid(pk, form)

\* InmuebleDeleteView.delete
InmuebleDelete_delete(pk) ==
    /\ inmuebles' = [inmuebles EXCEPT ![pk].activo = FALSE]
    /\ cache' = cache_delete(UserCacheKey(session))
    /\ response' = Redirect(<<"inmuebles_list">>, "success", "Inmueble desactivado")
    /\ UNCHANGED <<nextInmuebleId, gastos, nextGastoId, session, calc, admin_tables>>

\* The form_valid that InmuebleDeleteView inherits from DeleteView and does
\* not override: self.object.delete(), which removes the row and, by
\* on_delete=CASCADE, the Gasto rows that point to it.
InmuebleDelete_form_valid(pk) ==
    /\ inmuebles' = [i \in DOMAIN inmuebles \ {pk} |-> inmuebles[i]]
    /\ gastos' = [g \in DOMAIN gastos \ GastosOf(pk) |-> gastos[g]]
    /\ response' = Redirect(<<"inmuebles_list">>, None, None)
    /\ UNCHANGED <<nextInmuebleId, nextGastoId, session, cache, calc, admin_tables>>

\* InmuebleDeleteView: dispatch, then DeleteView's get/post/delete.  An HTTP
\* DELETE request runs delete().  A POST runs delete() under a DeleteView
\* whose post() calls it (Django before 4.0) and the inherited form_valid
\* under one whose post() validates a form (Django 4.0 and later); the
\* repository does not pin the framework, so post_handler is either.
InmuebleDeleteView(pk, method, post_handler) ==
    IF pk \notin DOMAIN inmuebles \/ dispatch_permission(pk) # "granted" \/ method = "GET"
    THEN /\ response' =
              IF pk \notin DOMAIN inmuebles THEN NotFound
              ELSE IF dispatch_permission(pk) = "error" THEN ServerError
              ELSE IF dispatch_permission(pk) = "denied"
              THEN PermissionRedirect("No tienes permiso para eliminar este inmueble")
              ELSE Render("inmueble_confirm_delete.html", None)
         /\ UNCHANGED <<inmuebles, nextInmuebleId, gastos, nextGastoId, session, cache, calc, admin_tables>>
    ELSE IF method = "DELETE" \/ post_handler = "delete"
    THEN InmuebleDelete_delete(pk)
    ELSE InmuebleDelete_form_valid(pk)

\* GastoCreateView.form_valid
GastoCreate_form_valid(inmueble_pk, form) ==
    /\ nextGastoId <= MaxGastos
    /\ gastos' = (nextGastoId :> [inmueble |-> inmueble_pk, cantidad |-> form.cantidad,
                                  categoria |-> form.categoria, fecha |-> form.fecha])
                  @@ gastos
    /\ nextGastoId' = nextGastoId + 1
    /\ cache' = cache_delete(UserCacheKey(session))
    /\ response' = Redirect(<<"inmueble_detail", ToString(inmueble_pk)>>, "success",
                            "Gasto registrado exitosamente")
    /\ UNCHANGED <<inmuebles, nextInmuebleId, session, calc, admin_tables>>

\* GastoCreateView: dispatch, then CreateView's get/post
GastoCreateView(inmueble_pk, method, form) ==
    IF inmueble_pk \notin DOMAIN inmuebles \/ dispatch_permission(inmueble_pk) # "granted"
       \/ method = "GET" \/ ~GastoFormValid(form)
    THEN /\ response' =
              IF inmueble_pk \notin DOMAIN inmuebles THEN NotFound
              ELSE IF dispatch_permission(inmueble_pk) = "error" THEN ServerError
              ELSE IF dispatch_permission(inmueble_pk) = "denied"
              THEN PermissionRedirect("No tienes permiso para agregar gastos")
              ELSE Render("gasto_form.html",
                          IF method = "GET" THEN None ELSE "form errors")
         /\ UNCHANGED <<inmuebles, nextInmuebleId, gastos, nextGastoId, session, cache, calc, admin_tables>>
    ELSE GastoCreate_form_valid(inmueble_pk, form)

\* GastoUpdateView.form_valid
GastoUpdate_form_valid(pk, form) ==
    /\ gastos' = [gastos EXCEPT ![pk].cantidad = form.cantidad,
                                ![pk].categoria = form.categoria,
                                ![pk].fecha = form.fecha]
    /\ cache' = cache_delete(UserCacheKey(session))
    /\ response' = Redirect(<<"inmueble_detail", ToString(gastos[pk].inmueble)>>,
                            "success", "Gasto actualizado")
    /\ UNCHANGED <<inmuebles, nextInmuebleId, nextGastoId, session, calc, admin_tables>>

\* GastoUpdateView: dispatch, then UpdateView's get/post
GastoUpdateView(pk, method, form) ==
    IF pk \notin DOMAIN gastos \/ dispatch_permission(gastos[pk].inmueble) # "granted"
       \/ method = "GET" \/ ~GastoFormValid(form)
    THEN /\ response' =
              IF pk \notin DOMAIN gastos THEN NotFound
              ELSE IF dispatch_permission(gastos[pk].inmueble) = "error" THEN ServerError
              ELSE IF dispatch_permission(gastos[pk].inmueble) = "denied"
              THEN PermissionRedirect("No tienes permiso para editar este gasto")
              ELSE Render("gasto_form.html",
                          IF method = "GET" THEN None ELSE "form errors")
         /\ UNCHANGED <<inmuebles, nextInmuebleId, gastos, nextGastoId, session, cache, calc, admin_tables>>
    ELSE GastoUpdate_form_valid(pk, form)

\* The form_valid that GastoDeleteView inherits from DeleteView:
\* get_success_url(), then self.object.delete().
GastoDelete_form_valid(pk) ==
    /\ gastos' = [g \in DOMAIN gastos \ {pk} |-> gastos[g]]
    /\ response' = Redirect(<<"inmueble_detail", ToString(gastos[pk].inmueble)>>, None, None)
    /\ UNCHANGED <<inmuebles, nextInmuebleId, nextGastoId, session, cache, calc, admin_tables>>

\* GastoDeleteView.delete reads self.object, which nothing has set when the
\* method is entered (dispatch keeps its get_object() in a local): the
\* AttributeError leaves the view before anything is written.
GastoDelete_delete(pk) ==
    /\ response' = ServerError
    /\ UNCHANGED <<inmuebles, nextInmuebleId, gastos, nextGastoId, session, cache, calc, admin_tables>>

\* GastoDeleteView: dispatch, then DeleteView's get/post/delete (the
\* handler of a POST as in InmuebleDeleteView)
GastoDeleteView(pk, method, post_handler) ==
    IF pk \notin DOMAIN gastos \/ dispatch_permission(gastos[pk].inmueble) # "granted"
       \/ method = "GET"
    THEN /\ response' =
              IF pk \notin DOMAIN gastos THEN NotFound
              ELSE IF dispatch_permission(gastos[pk].inmueble) = "error" THEN ServerError
              ELSE IF dispatch_permission(gastos[pk].inmueble) = "denied"
              THEN PermissionRedirect("No tienes permiso para eliminar este gasto")
              ELSE Render("gasto_confirm_delete.html", None)
         /\ UNCHANGED <<inmuebles, nextInmuebleId, gastos, nextGastoId, session, cache, calc, admin_tables>>
    ELSE IF method = "DELETE" \/ post_handler = "delete"
    THEN GastoDelete_delete(pk)
    ELSE GastoDelete_form_valid(pk)

\* TruncMonth('fecha') of a date <<year, month, day>>
TruncMonth(fecha) == <<fecha[1], fecha[2], 1>>

\* Gasto.CATEGORIAS
CATEGORIAS ==
    [MANTENIMIENTO |-> "Mantenimiento", REPARACION |-> "Reparación",
     SERVICIOS |-> "Servicios (agua, luz, gas)", SEGUROS |-> "Seguros",
     ADMINISTRATIVO |-> "Gastos Administrativos", OTRO |-> "Otro"]

\* categoria_display with one name for every category
categoria_display_of_one_name(categoria) == "Gasto"

\* dict(Gasto._meta.get_field('categoria').choices).get(categoria, categoria)
categoria_display(categoria) ==
    IF categoria \in DOMAIN CATEGORIAS THEN CATEGORIAS[categoria] ELSE categoria

\* an item of a values(...).annotate(total=Sum('cantidad'), count=Count('id'))
GroupItem(gs) == [total |-> SumCantidad(gs), count |-> Cardinality(gs)]

\* the context of inmueble_detail for the expenses of the property: the
\* aggregate, the dictionary filled from the groups by category (an item
\* replaces an earlier one with the same display name) and the groups by
\* month.  The average, the lists of rows and the JSON copies of the same
\* groups are left out.
inmueble_detail_context(pk) ==
    LET gs == GastosOf(pk)
        categorias == {gastos[g].categoria : g \in gs}
        meses == {TruncMonth(gastos[g].fecha) : g \in gs}
        por_categoria(c) == GroupItem({g \in gs : gastos[g].categoria = c})
    IN  [gastos_total |-> SumCantidad(gs),
         gastos_count |-> Cardinality(gs),
         gastos_por_categoria |->
             [d \in {categoria_display(c) : c \in categorias} |->
                 por_categoria(CHOOSE c \in categorias : categoria_display(c) = d)],
         gastos_por_mes |->
             [m \in meses |-> GroupItem({g \in gs : TruncMonth(gastos[g].fecha) = m})],
         renta_neta |-> renta_anual_neta(inmuebles[pk]),
         renta_neta_con_gastos |->
             renta_neta_con_gastos([pk |-> pk] @@ inmuebles[pk])]

\* inmueble_detail: login_required, get_object_or_404, the permission check
inmueble_detail(pk) ==
    /\ response' =
          IF ~is_authenticated(session) THEN RedirectToLogin
          ELSE IF pk \notin DOMAIN inmuebles THEN NotFound
          ELSE IF ~check_inmueble_permission(session, pk)
          THEN PermissionRedirect("No tienes permiso para ver este inmueble")
          ELSE RenderContext("inmueble_detail.html", inmueble_detail_context(pk))
    /\ UNCHANGED <<inmuebles, nextInmuebleId, gastos, nextGastoId, session, cache, calc, admin_tables>>

(***************************************************************************)
(* The requests a browser sends, and the specifications.                   *)
(***************************************************************************)
\* primary keys a URL may name: those the tables can hold, and one beyond
\* str(d) of a Decimal, as a value that is no Decimal (the model's Decimals
\* are normalised, so trailing zeros are not part of the string)
str(d) == <<"str", d>>

\* the data of api_dashboard_data for the user
api_data(user) ==
    LET act == {pk \in get_user_inmuebles(user) : inmuebles[pk].activo}
    IN  [inmuebles |->
            [pk \in act |->
                [renta_mensual |-> str(inmuebles[pk].renta_mensual),
                 renta_anual_bruta |-> str(renta_anual_bruta(inmuebles[pk])),
                 renta_anual_neta |-> str(renta_anual_neta(inmuebles[pk])),
                 iva |-> str(iva_total(inmuebles[pk])),
                 irpf |-> str(irpf_total(inmuebles[pk])),
                 gastos |-> str(SumCantidad(GastosOf(pk)))]],
         resumen |->
            [renta_bruta |->
                str(SumOver([pk \in act |-> renta_anual_bruta(inmuebles[pk])], act)),
             renta_neta |->
                str(SumOver([pk \in act |-> renta_anual_neta(inmuebles[pk])], act)),
             gastos |-> str(SumOver([pk \in act |-> SumCantidad(GastosOf(pk))], act)),
             iva |-> str(SumOver([pk \in act |-> iva_total(inmuebles[pk])], act)),
             irpf |-> str(SumOver([pk \in act |-> irpf_total(inmuebles[pk])], act))]]

\* api_dashboard_data: login_required, then cache_page (the stored response
\* if there is one, else the response of the view, stored), then the view
api_dashboard_data(only_outcome) ==
    /\ UNCHANGED <<inmuebles, nextInmuebleId, gastos, nextGastoId, session, calc, admin_tables>>
    /\ IF ~is_authenticated(session)
       THEN /\ response' = RedirectToLogin
            /\ UNCHANGED cache
       ELSE IF cache[page_cache_key] # Miss
       THEN /\ response' = cache[page_cache_key]
            /\ UNCHANGED cache
       ELSE IF only_outcome = "FieldDoesNotExist"
       THEN /\ response' = ServerError
            /\ UNCHANGED cache
       ELSE /\ response' = JsonResponse(api_data(session))
            /\ cache' = [cache EXCEPT ![page_cache_key] = JsonResponse(api_data(session))]

\* the context of reportes for the user
reportes_context(user) ==
    LET vis == get_user_inmuebles(user)
        renta == SumOver([pk \in vis |-> renta_anual_bruta(inmuebles[pk])], vis)
        impuestos ==
            SumOver([pk \in vis |->
                        DecAdd(iva_total(inmuebles[pk]), irpf_total(inmuebles[pk]))], vis)
        gastos_sum == SumOver([pk \in vis |-> SumCantidad(GastosOf(pk))], vis)
    IN  [inmuebles |-> [pk \in vis |-> [gastos_sum |-> SumCantidad(GastosOf(pk)),
                                         num_gastos |-> Cardinality(GastosOf(pk))]],
         renta_total |-> renta,
         impuestos_total |-> impuestos,
         gastos_total |-> gastos_sum,
         neto_total |-> DecSub(DecSub(renta, impuestos), gastos_sum)]

\* reportes: login_required, then the totals of the visible properties
reportes(only_outcome) ==
    /\ UNCHANGED <<inmuebles, nextInmuebleId, gastos, nextGastoId, session, cache, calc, admin_tables>>
    /\ response' =
          IF ~is_authenticated(session) THEN RedirectToLogin
          ELSE IF only_outcome = "FieldDoesNotExist" THEN ServerError
          ELSE RenderContext("reportes.html", reportes_context(session))

InmueblePks == 1..(MaxInmuebles + 1)

GastoPks == 1..(MaxGastos + 1)

\* the handler DeleteView.post ends in (see InmuebleDeleteView)
PostHandlers == {"delete", "form_valid"}

\* the login requests of the main specification: the form page, and for
\* every account and for an unknown name the right and a wrong password
LoginRequests ==
    {[method |-> "GET", username |-> NoneStr, password |-> NoneStr]}
    \cup {[method |-> "POST", username |-> Username(u), password |-> <<"pw", u>>] :
             u \in Users}
    \cup {[method |-> "POST", username |-> n, password |-> <<"bad">>] :
             n \in {Username(u) : u \in Users} \cup {<<"x">>}}

NoCalc == [instance |-> Null, figures |-> Null]

Init ==
    /\ inmuebles = <<>>
    /\ nextInmuebleId = 1
    /\ gastos = <<>>
    /\ nextGastoId = 1
    /\ session = Anon
    /\ cache = [k \in CacheKeys |-> Miss]
    /\ request = NoRequest
    /\ response = NoResponse
    /\ participacion = [s \in Socios |-> DefaultParticipacion]
    /\ declaraciones = <<>>
    /\ nextDeclaracionId = 1
    /\ calc = NoCalc

Login ==
    \E r \in LoginRequests :
        /\ request' = LoginRequest(r.method, r.username, r.password, NoneStr, NoneStr)
        /\ login_view(r.method, r.username, r.password, NoneStr, NoneStr)

InmuebleCreate ==
    \E method \in Methods, form \in InmuebleForms :
        /\ request' = Request("inmueble_create", method, 0)
        /\ InmuebleCreateView(method, form)

InmuebleUpdate ==
    \E pk \in InmueblePks, method \in Methods, form \in InmuebleForms :
        /\ request' = Request("inmueble_update", method, pk)
        /\ InmuebleUpdateView(pk, method, form)

InmuebleDelete ==
    \E pk \in InmueblePks, method \in DeleteMethods, post_handler \in PostHandlers :
        /\ request' = Request("inmueble_delete", method, pk)
        /\ InmuebleDeleteView(pk, method, post_handler)

GastoCreate ==
    \E pk \in InmueblePks, method \in Methods, form \in GastoForms :
        /\ request' = Request("gasto_create", method, pk)
        /\ GastoCreateView(pk, method, form)

GastoUpdate ==
    \E pk \in GastoPks, method \in Methods, form \in GastoForms :
        /\ request' = Request("gasto_update", method, pk)
        /\ GastoUpdateView(pk, method, form)

GastoDelete ==
    \E pk \in GastoPks, method \in DeleteMethods, post_handler \in PostHandlers :
        /\ request' = Request("gasto_delete", method, pk)
        /\ GastoDeleteView(pk, method, post_handler)

InmuebleDetail ==
    \E pk \in InmueblePks :
        /\ request' = Request("inmueble_detail", "GET", pk)
        /\ inmueble_detail(pk)

Next ==
    \/ Login
    \/ SessionEnd
    \/ InmuebleCreate
    \/ InmuebleUpdate
    \/ InmuebleDelete
    \/ GastoCreate
    \/ GastoUpdate
    \/ GastoDelete
    \/ InmuebleDetail

Spec == Init /\ [][Next]_vars

Dashboard ==
    \E only_outcome \in OnlyOutcomes :
        /\ request' = Request("dashboard", "GET", 0)
        /\ dashboard(only_outcome)

ApiDashboardData ==
    \E only_outcome \in OnlyOutcomes :
        /\ request' = Request("api_dashboard_data", "GET", 0)
        /\ api_dashboard_data(only_outcome)

Reportes ==
    \E only_outcome \in OnlyOutcomes :
        /\ request' = Request("reportes", "GET", 0)
        /\ reportes(only_outcome)

\* The application with its dashboard and the cache behind it, explored
\* for the browsers of CacheUsers and a table of MaxCacheInmuebles rows.
CacheUsers == {"ana", "root"}

MaxCacheInmuebles == 1

CacheBound ==
    /\ session \in CacheUsers \cup {Anon}
    /\ nextInmuebleId <= MaxCacheInmuebles + 1

NextCache ==
    \/ Login /\ CacheBound'
    \/ SessionEnd /\ CacheBound'
    \/ InmuebleCreate /\ CacheBound'
    \/ InmuebleUpdate /\ CacheBound'
    \/ InmuebleDelete /\ CacheBound'
    \/ GastoCreate /\ CacheBound'
    \/ GastoUpdate /\ CacheBound'
    \/ GastoDelete /\ CacheBound'
    \/ InmuebleDetail /\ CacheBound'
    \/ Dashboard /\ CacheBound'
    \/ CacheExpire /\ CacheBound'

SpecCache == Init /\ [][NextCache]_vars

(***************************************************************************)
(* login_view on its own, over every input of the bounded sets.            *)
(***************************************************************************)
Alphabet == {"/", "a"}

RECURSIVE StringsOfLen(_)
StringsOfLen(n) ==
    IF n = 0 THEN {<<>>}
    ELSE {Append(s, ch) : s \in StringsOfLen(n - 1), ch \in Alphabet}

\* the values of a 'next' parameter: absent, or a string
NextInputs == {NoneStr} \cup UNION {StringsOfLen(n) : n \in 0..MaxNextLen}

\* the (GET next, POST next) pairs: every value on one side against an
\* absent, an empty and a present value on the other
NextPairs ==
    {<<g, p>> : g \in NextInputs, p \in {NoneStr, <<"/", "a">>}}
    \cup {<<g, p>> : g \in {NoneStr, <<>>}, p \in NextInputs}

\* the credentials of LoginRequests, and names with blanks around them, a
\* blank name, no name, no password, another account's password
LoginFullRequests ==
    LoginRequests
    \cup {[method |-> "POST", username |-> n, password |-> <<"pw", "ana">>] :
             n \in {<<" ", "a">>, <<"a", " ">>, <<" ", "a", " ">>, <<" ">>, NoneStr,
                    <<"s">>, <<"a", "a">>}}
    \cup {[method |-> "POST", username |-> <<"a">>, password |-> pw] :
             pw \in {NoneStr, <<>>}}

LoginFull ==
    \E r \in LoginFullRequests, n \in NextPairs :
        /\ request' = LoginRequest(r.method, r.username, r.password, n[1], n[2])
        /\ login_view(r.method, r.username, r.password, n[1], n[2])

NextLogin ==
    \/ LoginFull
    \/ SessionEnd

SpecLogin == Init /\ [][NextLogin]_vars

(***************************************************************************)
(* The derived figures on their own: an Inmueble instance whose fields are *)
(* assigned, and the figures read from it.                                 *)
(***************************************************************************)
RentaValues == {Null, Dec(0, 0), Dec(5, 1), Dec(800, 0), Dec(10005, 1), Dec(-5, 0)}

PorcentajeValues ==
    {Dec(0, 0), Dec(75, 1), Dec(19, 0), Dec(21, 0), Dec(100, 0), Dec(150, 0), Dec(-1, 0)}

CalcInstances ==
    [renta_mensual : RentaValues,
     iva_porcentaje : PorcentajeValues,
     irpf_porcentaje : PorcentajeValues]

Figures(self) ==
    [renta_anual_bruta |-> renta_anual_bruta(self),
     iva_total |-> iva_total(self),
     irpf_total |-> irpf_total(self),
     renta_anual_neta |-> renta_anual_neta(self)]

InitCalc ==
    /\ inmuebles = <<>>
    /\ nextInmuebleId = 1
    /\ gastos = <<>>
    /\ nextGastoId = 1
    /\ session = Anon
    /\ cache = [k \in CacheKeys |-> Miss]
    /\ request = NoRequest
    /\ response = NoResponse
    /\ participacion = [s \in Socios |-> DefaultParticipacion]
    /\ declaraciones = <<>>
    /\ nextDeclaracionId = 1
    /\ calc \in {[instance |-> i, figures |-> Null] : i \in CalcInstances}

\* the properties of the instance are read
ReadFigures ==
    /\ calc.figures = Null
    /\ calc' = [calc EXCEPT !.figures = Figures(calc.instance)]
    /\ UNCHANGED <<inmuebles, nextInmuebleId, gastos, nextGastoId, session, cache,
                   request, response, admin_tables>>

\* a field of the instance is assigned
AssignFields ==
    /\ calc.figures # Null
    /\ \E i \in CalcInstances : calc' = [instance |-> i, figures |-> Null]
    /\ UNCHANGED <<inmuebles, nextInmuebleId, gastos, nextGastoId, session, cache,
                   request, response, admin_tables>>

NextCalc ==
    \/ ReadFigures
    \/ AssignFields

SpecCalc == InitCalc /\ [][NextCalc]_vars

(***************************************************************************)
(* The reports and the detail view over a store of two properties and up   *)
(* to MaxReadGastos expenses, for a browser that is logged in as one of    *)
(* ReadUsers or not at all; expenses are added through GastoCreateView.    *)
(***************************************************************************)
MaxReadGastos == 2

ReadUsers == {"ana", "root"}

\* the expense tables of up to MaxReadGastos rows
ReadGastos ==
    UNION {[1..n -> [inmueble : {1, 2},
                     cantidad : {Dec(250, 0), Dec(500, 0)},
                     categoria : {"OTRO", "SEGUROS"},
                     fecha : {<<2024, 1, 15>>, <<2024, 1, 31>>, <<2024, 2, 1>>}]] :
              n \in 0..MaxReadGastos}

\* two properties: one of ana, one of sam that is active or not
ReadInmuebles ==
    {<<[renta_mensual |-> Dec(800, 0), iva_porcentaje |-> Dec(21, 0),
        irpf_porcentaje |-> Dec(19, 0), activo |-> TRUE, socios |-> {"ana"}],
       [renta_mensual |-> Dec(10005, 1), iva_porcentaje |-> Dec(21, 0),
        irpf_porcentaje |-> Dec(19, 0), activo |-> activo, socios |-> {"sam"}]>> :
        activo \in BOOLEAN}

InitRead ==
    /\ inmuebles \in ReadInmuebles
    /\ nextInmuebleId = 3
    /\ gastos \in ReadGastos
    /\ nextGastoId = Len(gastos) + 1
    /\ session \in ReadUsers \cup {Anon}
    /\ cache = [k \in CacheKeys |-> Miss]
    /\ request = NoRequest
    /\ response = NoResponse
    /\ calc = NoCalc
    /\ participacion = [s \in Socios |-> DefaultParticipacion]
    /\ declaraciones = <<>>
    /\ nextDeclaracionId = 1

ReadBound == nextGastoId <= MaxReadGastos + 1

NextRead ==
    \/ Reportes /\ ReadBound'
    \/ InmuebleDetail /\ ReadBound'
    \/ GastoCreate /\ ReadBound'

SpecRead == InitRead /\ [][NextRead]_vars

(***************************************************************************)
(* The dashboard and the JSON API with the cache behind them, over the two *)
(* properties and up to MaxApiGastos expenses, for the browsers of         *)
(* ReadUsers.                                                              *)
(***************************************************************************)
MaxApiGastos == 2

\* the expense tables of up to MaxApiGastos rows
ApiGastos ==
    UNION {[1..n -> [inmueble : {1, 2},
                     cantidad : {Dec(250, 0), Dec(500, 0)},
                     categoria : {"OTRO"},
                     fecha : {<<2024, 1, 15>>}]] :
              n \in 0..MaxApiGastos}

InitApi ==
    /\ inmuebles \in ReadInmuebles
    /\ nextInmuebleId = 3
    /\ gastos \in ApiGastos
    /\ nextGastoId = Len(gastos) + 1
    /\ session = Anon
    /\ cache = [k \in CacheKeys |-> Miss]
    /\ request = NoRequest
    /\ response = NoResponse
    /\ calc = NoCalc
    /\ participacion = [s \in Socios |-> DefaultParticipacion]
    /\ declaraciones = <<>>
    /\ nextDeclaracionId = 1

ApiBound ==
    /\ session \in ReadUsers \cup {Anon}
    /\ nextGastoId <= MaxApiGastos + 1

NextApi ==
    \/ Login /\ ApiBound'
    \/ SessionEnd /\ ApiBound'
    \/ Dashboard /\ ApiBound'
    \/ ApiDashboardData /\ ApiBound'
    \/ GastoCreate /\ ApiBound'
    \/ CacheExpire /\ ApiBound'

SpecApi == InitApi /\ [][NextApi]_vars

(***************************************************************************)
(* The property form on its own: the forms of PercentageForms are posted   *)
(* to the create and the edit view by a browser that is logged in as an    *)
(* owner or not at all.                                                    *)
(***************************************************************************)
\* forms with percentages inside [0, 100], above, below, and with too many
\* digits
PercentageForms ==
    [renta_mensual : {Dec(800, 0)},
     iva_porcentaje : {Dec(21, 0), Dec(150, 0), Dec(-1, 0), Dec(1000, 0)},
     irpf_porcentaje : {Dec(19, 0), Dec(100, 0), Dec(10001, 2)},
     socios : {{}}]

\* a request with the data of the posted form
FormRequest(view, method, pk, form) ==
    [view |-> view, method |-> method, pk |-> pk, form |-> form]

InitForms ==
    /\ inmuebles = <<>>
    /\ nextInmuebleId = 1
    /\ gastos = <<>>
    /\ nextGastoId = 1
    /\ session \in {"ana", Anon}
    /\ cache = [k \in CacheKeys |-> Miss]
    /\ request = NoRequest
    /\ response = NoResponse
    /\ participacion = [s \in Socios |-> DefaultParticipacion]
    /\ declaraciones = <<>>
    /\ nextDeclaracionId = 1
    /\ calc = NoCalc

InmuebleFormCreate ==
    \E method \in Methods, form \in PercentageForms :
        /\ request' = FormRequest("inmueble_create", method, 0, form)
        /\ InmuebleCreateView(method, form)

InmuebleFormUpdate ==
    \E pk \in InmueblePks, method \in Methods, form \in PercentageForms :
        /\ request' = FormRequest("inmueble_update", method, pk, form)
        /\ InmuebleUpdateView(pk, method, form)

NextForms ==
    \/ InmuebleFormCreate
    \/ InmuebleFormUpdate

SpecForms == InitForms /\ [][NextForms]_vars

(***************************************************************************)
(* The admin site (app/admin.py): the add, change and delete pages of      *)
(* DeclaracionAdmin and the change page of SocioAdmin, the only code that  *)
(* writes the two tables.  A page answers a user who is staff and has the  *)
(* model permission, which is data of the auth tables (has_perm); it       *)
(* validates the posted ModelForm with full_clean (field validators,       *)
(* validate_unique) and saves the instance when the form is valid.         *)
(***************************************************************************)
MaxDeclaraciones == 2

\* the data posted to the declaration form
DeclaracionForms ==
    [socio : Socios, anio : {2024, 2025}, trimestre : {"Q1", "Q2"}, declarado : {FALSE}]

\* the data posted to porcentaje_participacion of the owner form
ParticipacionInputs ==
    {Dec(50, 0), Dec(150, 0), Dec(-1, 0), Dec(10001, 2)}

\* a Meta without unique_together: no row is in the way of another
unique_together_absent(row, pk) == FALSE

\* DeclaracionTrimestral.Meta.unique_together: another row than pk has the
\* owner, year and quarter of row.  ModelForm.validate_unique asks it before
\* the save and the unique index of the table at the INSERT or UPDATE.
unique_together(row, pk) ==
    \E q \in DOMAIN declaraciones \ {pk} :
        /\ declaraciones[q].socio = row.socio
        /\ declaraciones[q].anio = row.anio
        /\ declaraciones[q].trimestre = row.trimestre

\* the validators of porcentaje_participacion without MaxValueValidator
porcentaje_participacion_without_max(d) ==
    /\ DecimalFieldValid(d, PorcentajeMaxDigits, DecimalPlaces)
    /\ DecLe(Zero, d)

\* Socio.porcentaje_participacion: DecimalField(max_digits=5,
\* decimal_places=2) with MinValueValidator(0) and MaxValueValidator(100)
porcentaje_participacion(d) ==
    /\ DecimalFieldValid(d, PorcentajeMaxDigits, DecimalPlaces)
    /\ DecLe(Zero, d)
    /\ DecLe(d, Dec(100, 0))

\* what an admin page answers before it looks at the form: the login page
\* for a user who is not staff, 403 for a staff user without the permission
admin_refusal(has_perm) ==
    IF ~(is_authenticated(session) /\ is_active(session) /\ is_staff(session))
    THEN Redirect(<<"admin:login">>, None, None)
    ELSE IF ~has_perm THEN [ServerError EXCEPT !.status = "forbidden"]
    ELSE NoResponse

\* DeclaracionAdmin, add page
DeclaracionAdd ==
    \E method \in Methods, form \in DeclaracionForms, has_perm \in BOOLEAN :
        /\ request' = FormRequest("admin_declaracion_add", method, 0, form)
        /\ UNCHANGED <<inmuebles, nextInmuebleId, gastos, nextGastoId, session, cache,
                       calc, participacion>>
        /\ IF admin_refusal(has_perm) # NoResponse
           THEN /\ response' = admin_refusal(has_perm)
                /\ UNCHANGED <<declaraciones, nextDeclaracionId>>
           ELSE IF method = "GET" \/ unique_together(form, 0)
           THEN /\ response' = Render("admin/change_form.html",
                                      IF method = "GET" THEN None ELSE "form errors")
                /\ UNCHANGED <<declaraciones, nextDeclaracionId>>
           ELSE /\ nextDeclaracionId <= MaxDeclaraciones
                /\ declaraciones' = (nextDeclaracionId :> form) @@ declaraciones
                /\ nextDeclaracionId' = nextDeclaracionId + 1
                /\ response' = Redirect(<<"admin:changelist">>, "success", "added")

\* DeclaracionAdmin, change page
DeclaracionChange ==
    \E pk \in 1..MaxDeclaraciones, method \in Methods, form \in DeclaracionForms,
       has_perm \in BOOLEAN :
        /\ request' = FormRequest("admin_declaracion_change", method, pk, form)
        /\ UNCHANGED <<inmuebles, nextInmuebleId, gastos, nextGastoId, session, cache,
                       calc, participacion, nextDeclaracionId>>
        /\ IF admin_refusal(has_perm) # NoResponse
           THEN /\ response' = admin_refusal(has_perm)
                /\ UNCHANGED declaraciones
           ELSE IF pk \notin DOMAIN declaraciones
           THEN /\ response' = Redirect(<<"admin:index">>, "warning", "doesn't exist")
                /\ UNCHANGED declaraciones
           ELSE IF method = "GET" \/ unique_together(form, pk)
           THEN /\ response' = Render("admin/change_form.html",
                                      IF method = "GET" THEN None ELSE "form errors")
                /\ UNCHANGED declaraciones
           ELSE /\ declaraciones' = [declaraciones EXCEPT ![pk] = form]
                /\ response' = Redirect(<<"admin:changelist">>, "success", "changed")

\* DeclaracionAdmin, delete page
DeclaracionDelete ==
    \E pk \in 1..MaxDeclaraciones, method \in Methods, has_perm \in BOOLEAN :
        /\ request' = Request("admin_declaracion_delete", method, pk)
        /\ UNCHANGED <<inmuebles, nextInmuebleId, gastos, nextGastoId, session, cache,
                       calc, participacion, nextDeclaracionId>>
        /\ IF admin_refusal(has_perm) # NoResponse
           THEN /\ response' = admin_refusal(has_perm)
                /\ UNCHANGED declaraciones
           ELSE IF pk \notin DOMAIN declaraciones
           THEN /\ response' = Redirect(<<"admin:index">>, "warning", "doesn't exist")
                /\ UNCHANGED declaraciones
           ELSE IF method = "GET"
           THEN /\ response' = Render("admin/delete_confirmation.html", None)
                /\ UNCHANGED declaraciones
           ELSE /\ declaraciones' = [q \in DOMAIN declaraciones \ {pk} |-> declaraciones[q]]
                /\ response' = Redirect(<<"admin:changelist">>, "success", "deleted")

\* SocioAdmin, change page of the owner record of socio
SocioChange ==
    \E socio \in Socios, method \in Methods, porcentaje \in ParticipacionInputs,
       has_perm \in BOOLEAN :
        /\ request' = FormRequest("admin_socio_change", method, UserId(socio),
                                  [socio |-> socio, porcentaje_participacion |-> porcentaje])
        /\ UNCHANGED <<inmuebles, nextInmuebleId, gastos, nextGastoId, session, cache,
                       calc, declaraciones, nextDeclaracionId>>
        /\ IF admin_refusal(has_perm) # NoResponse
           THEN /\ response' = admin_refusal(has_perm)
                /\ UNCHANGED participacion
           ELSE IF method = "GET" \/ ~porcentaje_participacion(porcentaje)
           THEN /\ response' = Render("admin/change_form.html",
                                      IF method = "GET" THEN None ELSE "form errors")
                /\ UNCHANGED participacion
           ELSE /\ participacion' = [participacion EXCEPT ![socio] = porcentaje]
                /\ response' = Redirect(<<"admin:changelist">>, "success", "changed")

InitAdmin ==
    /\ inmuebles = <<>>
    /\ nextInmuebleId = 1
    /\ gastos = <<>>
    /\ nextGastoId = 1
    /\ session \in {"root", "ana"}
    /\ cache = [k \in CacheKeys |-> Miss]
    /\ request = NoRequest
    /\ response = NoResponse
    /\ participacion = [s \in Socios |-> DefaultParticipacion]
    /\ declaraciones = <<>>
    /\ nextDeclaracionId = 1
    /\ calc = NoCalc

NextAdmin ==
    \/ DeclaracionAdd
    \/ DeclaracionChange
    \/ DeclaracionDelete
    \/ SocioChange

SpecAdmin == InitAdmin /\ [][NextAdmin]_vars

(***************************************************************************)
(* The six derived figures of an instance, with the expenses of the store: *)
(* a store of two properties and up to MaxFigGastos expenses, and an       *)
(* instance that is the loaded row of property 1 or an unsaved one, whose  *)
(* fields are assigned and whose figures are read.                         *)
(***************************************************************************)
MaxFigGastos == 2

\* the expense tables of up to MaxFigGastos rows
FigGastos ==
    UNION {[1..n -> [inmueble : {1, 2},
                     cantidad : {Dec(250, 0), Dec(500, 0), Dec(8000, 0)}]] : n \in 0..MaxFigGastos}

FigRows ==
    [renta_mensual : {Dec(800, 0), Dec(5, 1)},
     iva_porcentaje : {Dec(21, 0)},
     irpf_porcentaje : {Dec(19, 0), Dec(100, 0)},
     activo : {TRUE},
     socios : {{"ana"}}]

\* Inmueble.objects.get(pk=pk): the instance of a row
LoadedInstance(pk) ==
    [pk |-> pk,
     renta_mensual |-> inmuebles[pk].renta_mensual,
     iva_porcentaje |-> inmuebles[pk].iva_porcentaje,
     irpf_porcentaje |-> inmuebles[pk].irpf_porcentaje]

\* Inmueble(...): an instance that was never saved
UnsavedInstances ==
    [pk : {0},
     renta_mensual : {Null, Dec(800, 0)},
     iva_porcentaje : {Dec(21, 0)},
     irpf_porcentaje : {Dec(19, 0)}]

AllFigures(self) ==
    [renta_anual_bruta |-> renta_anual_bruta(self),
     iva_total |-> iva_total(self),
     irpf_total |-> irpf_total(self),
     renta_anual_neta |-> renta_anual_neta(self),
     gastos_totales |-> gastos_totales(self),
     renta_neta_con_gastos |-> renta_neta_con_gastos(self)]

InitFigures ==
    /\ \E row \in FigRows : inmuebles = <<row, [row EXCEPT !.renta_mensual = Dec(800, 0)]>>
    /\ nextInmuebleId = 3
    /\ gastos \in FigGastos
    /\ nextGastoId = Len(gastos) + 1
    /\ session = Anon
    /\ cache = [k \in CacheKeys |-> Miss]
    /\ request = NoRequest
    /\ response = NoResponse
    /\ participacion = [s \in Socios |-> DefaultParticipacion]
    /\ declaraciones = <<>>
    /\ nextDeclaracionId = 1
    /\ calc \in {[instance |-> i, figures |-> Null] :
                    i \in {LoadedInstance(1)} \cup UnsavedInstances}

\* the six properties of the instance are read
ReadAllFigures ==
    /\ calc.figures = Null
    /\ calc' = [calc EXCEPT !.figures = AllFigures(calc.instance)]
    /\ UNCHANGED <<inmuebles, nextInmuebleId, gastos, nextGastoId, session, cache,
                   request, response, admin_tables>>

\* fields of the instance are assigned; its pk stays
AssignInstanceFields ==
    /\ \E renta \in {Null, Dec(800, 0), Dec(5, 1)}, irpf \in {Dec(19, 0), Dec(100, 0)} :
           calc' = [instance |-> [calc.instance EXCEPT !.renta_mensual = renta,
                                                       !.irpf_porcentaje = irpf],
                    figures |-> Null]
    /\ UNCHANGED <<inmuebles, nextInmuebleId, gastos, nextGastoId, session, cache,
                   request, response, admin_tables>>

NextFigures ==
    \/ ReadAllFigures
    \/ AssignInstanceFields

SpecFigures == InitFigures /\ [][NextFigures]_vars

(***************************************************************************)
(* Properties of the access-control helpers (under Spec).                  *)
(***************************************************************************)
\* the properties whose owner set holds the owner record of the user
OwnerAssociation(user) ==
    IF SocioOf(user) = None THEN {}
    ELSE {pk \in DOMAIN inmuebles : SocioOf(user) \in inmuebles[pk].socios}

\* C1, as the specification states it: for every non-administrator user,
\* every property returned by get_user_inmuebles is in the user's owner
\* association, and the returned collection is never the set of all
\* properties (read here for a store that holds at least one property).
C1_AsStated ==
    \A u \in Users :
        ~is_staff(u) =>
            /\ get_user_inmuebles(u) \subseteq OwnerAssociation(u)
            /\ AllInmuebles # {} => get_user_inmuebles(u) # AllInmuebles

\* C1, amended: for every non-administrator user, every property returned by
\* get_user_inmuebles is in the user's owner association (nothing is
\* returned for a user with no owner record); the returned collection equals
\* the set of all properties only when the user is an administrator or every
\* property of the store is in the user's owner association.
C1_VisibleWithinAssociation ==
    \A u \in Users :
        /\ ~is_staff(u) => get_user_inmuebles(u) \subseteq OwnerAssociation(u)
        /\ get_user_inmuebles(u) = AllInmuebles =>
               is_staff(u) \/ AllInmuebles \subseteq OwnerAssociation(u)

\* a non-administrator owner sees one property and does not see another,
\* while a user without owner record sees nothing
C1_Witness ==
    \E u \in Users :
        /\ ~is_staff(u)
        /\ get_user_inmuebles(u) # {}
        /\ get_user_inmuebles(u) # AllInmuebles
        /\ get_user_inmuebles("guest") = {}

\* C2: get_user_inmuebles resolves the collection by user class: every
\* administrator gets all properties, with or without an owner record; an
\* owner who is no administrator gets exactly the properties associated with
\* the owner record; any other user gets the empty collection.
C2_ByUserClass ==
    \A u \in Users :
        get_user_inmuebles(u) =
            IF is_staff(u) THEN AllInmuebles
            ELSE IF SocioOf(u) # None THEN OwnerAssociation(u)
            ELSE {}

\* C3: check_inmueble_permission(user, property) is true if and only if the
\* user is an administrator, or an owner record exists for the user and the
\* property is in that owner's associated set.
C3_PermissionIff ==
    \A u \in Users : \A pk \in DOMAIN inmuebles :
        check_inmueble_permission(u, pk) <=> (is_staff(u) \/ pk \in OwnerAssociation(u))

\* an owner who is no administrator is granted one property and refused
\* another
C3_Witness ==
    \E u \in Users : \E p, q \in DOMAIN inmuebles :
        /\ ~is_staff(u)
        /\ check_inmueble_permission(u, p)
        /\ ~check_inmueble_permission(u, q)

(***************************************************************************)
(* Properties of the views (under Spec).  A step of a view is a step that  *)
(* leaves in request the request the view has answered; session is the     *)
(* user who sent it.                                                       *)
(***************************************************************************)
\* the property a request is about: the one its URL names, or the one of the
\* expense its URL names; 0 when the URL names no row
InmuebleOfRequest(req) ==
    IF req.view \in {"inmueble_detail", "inmueble_update", "inmueble_delete", "gasto_create"}
    THEN IF req.pk \in DOMAIN inmuebles THEN req.pk ELSE 0
    ELSE IF req.view \in {"gasto_update", "gasto_delete"}
    THEN IF req.pk \in DOMAIN gastos THEN gastos[req.pk].inmueble ELSE 0
    ELSE 0

\* C4: for every authenticated user without access to a property, a detail,
\* edit or delete request on the property, and a create, edit or delete
\* request on an expense of the property, leaves the store unchanged and is
\* answered with a redirect to the property list that carries an error
\* message.
C4_DeniedLeavesStore ==
    [][(/\ is_authenticated(session)
        /\ InmuebleOfRequest(request') # 0
        /\ ~check_inmueble_permission(session, InmuebleOfRequest(request')))
       => /\ UNCHANGED store
          /\ response'.status = "redirect"
          /\ response'.to = <<"inmuebles_list">>
          /\ response'.level = "error"
          /\ response'.msg # None]_vars

\* a user without access has asked to delete an expense of a property and
\* has been sent to the property list with the error
C4_Witness ==
    /\ request.view = "gasto_delete"
    /\ request.method = "POST"
    /\ is_authenticated(session)
    /\ request.pk \in DOMAIN gastos
    /\ ~check_inmueble_permission(session, gastos[request.pk].inmueble)
    /\ response = PermissionRedirect("No tienes permiso para eliminar este gasto")

\* C5: after a create-property request by a non-administrator user, either
\* no new property row exists, or the new row exists with the owner record
\* of the requesting user in its owner set; a user who is neither owner nor
\* administrator leaves the store unchanged.
C5_CreateAtomic ==
    [][(request'.view = "inmueble_create" /\ ~is_staff(session))
       => /\ \/ DOMAIN inmuebles' = DOMAIN inmuebles
             \/ /\ SocioOf(session) # None
                /\ \A pk \in DOMAIN inmuebles' \ DOMAIN inmuebles :
                       SocioOf(session) \in inmuebles'[pk].socios
          /\ SocioOf(session) = None => UNCHANGED store]_vars

\* C6: a delete request on a property by a user with access soft-deletes it:
\* afterwards the row still exists with activo false, and the expenses are
\* the same as before the request.
C6_SoftDelete ==
    [][(/\ request'.view = "inmueble_delete"
        /\ request'.method \in {"POST", "DELETE"}
        /\ request'.pk \in DOMAIN inmuebles
        /\ is_authenticated(session)
        /\ check_inmueble_permission(session, request'.pk))
       => /\ request'.pk \in DOMAIN inmuebles'
          /\ ~inmuebles'[request'.pk].activo
          /\ gastos' = gastos]_vars

\* the routes that write: property create/edit/delete, expense
\* create/edit/delete
MutatingViews ==
    {"inmueble_create", "inmueble_update", "inmueble_delete",
     "gasto_create", "gasto_update", "gasto_delete"}

\* C8: every mutating route answers a request without authenticated session
\* with the redirect to the login page, never with a not-found response or
\* another response of the lookup or of the permission check, and leaves the
\* store unchanged.
C8_LoginRedirectFirst ==
    [][(session = Anon /\ request'.view \in MutatingViews)
       => /\ response' = RedirectToLogin
          /\ UNCHANGED store]_vars

(***************************************************************************)
(* Property of the dashboard cache (under SpecCache).                      *)
(***************************************************************************)
\* the rows of the user's properties and of their expenses
VisibleRows(user) ==
    [pk \in get_user_inmuebles(user) |->
        [row |-> inmuebles[pk], gastos |-> [g \in GastosOf(pk) |-> gastos[g]]]]

SameOriginPath(s) ==
    /\ s # NoneStr
    /\ Len(s) >= 1
    /\ s[1] = "/"
    /\ \A k \in 1..Len(s) : k < Len(s) => ~(s[k] = "/" /\ s[k + 1] = "/")

\* the 'next' value of a login request: that of the query string, else that
\* of the posted form, when there is one
SuppliedNext(req) ==
    IF req.get_next # NoneStr /\ req.get_next # <<>> THEN req.get_next
    ELSE req.post_next

\* the accounts whose name is the submitted one (blanks around it dropped),
\* whose password is the submitted one, and which are active
Accepted(req) ==
    IF req.username = NoneStr \/ req.password = NoneStr THEN {}
    ELSE {u \in Users : /\ Username(u) = strip(req.username)
                        /\ req.password = <<"pw", u>>
                        /\ u # "zoe"}

\* C9: login_view establishes a session only when the submitted username
\* exists, the password matches and the user is active; on success it
\* redirects to the supplied 'next' when that starts with '/' and holds no
\* '//', and to the dashboard otherwise; on failure no session is
\* established and the form is rendered again with an error; a user who is
\* authenticated already is redirected to the dashboard, the session as it
\* was.
C9_Login ==
    [][request'.view = "login" =>
          IF session # Anon
          THEN /\ session' = session
               /\ response' = Redirect(<<"dashboard">>, None, None)
          ELSE IF request'.method = "POST" /\ Accepted(request') # {}
          THEN /\ session' \in Accepted(request')
               /\ response'.status = "redirect"
               /\ response'.to = IF SameOriginPath(SuppliedNext(request'))
                                 THEN SuppliedNext(request')
                                 ELSE <<"dashboard">>
          ELSE /\ session' = Anon
               /\ response'.status = "render"
               /\ response'.to = <<"login.html">>
               /\ request'.method = "POST" => response'.msg = "Credenciales incorrectas"]_vars

\* a login has succeeded with a 'next' that was refused for its '//', and
\* the browser has been sent to the dashboard
C9_Witness ==
    /\ request.view = "login"
    /\ session = "ana"
    /\ request.get_next = <<"/", "/", "a">>
    /\ response = Redirect(<<"dashboard">>, None, None)

(***************************************************************************)
(* Property of the derived figures (under SpecCalc).                       *)
(***************************************************************************)
InRange(d) == DecLe(Zero, d) /\ DecLe(d, Dec(100, 0))

\* C10: for monthly rent r >= 0 and percentages v, i in [0, 100]:
\* annual_gross = r*12, vat = annual_gross*v/100, irpf = annual_gross*i/100,
\* net = annual_gross - irpf, and net - irpf <= net.
C10_Figures ==
    LET self == calc.instance
        f == calc.figures
        gross == DecMulInt(self.renta_mensual, 12)
    IN  (/\ f # Null
         /\ self.renta_mensual # Null
         /\ DecLe(Zero, self.renta_mensual)
         /\ InRange(self.iva_porcentaje)
         /\ InRange(self.irpf_porcentaje))
        => /\ f.renta_anual_bruta = gross
           /\ f.iva_total = DecDiv100(DecMul(gross, self.iva_porcentaje))
           /\ f.irpf_total = DecDiv100(DecMul(gross, self.irpf_porcentaje))
           /\ f.renta_anual_neta = DecSub(gross, f.irpf_total)
           /\ DecLe(DecSub(f.renta_anual_neta, f.irpf_total), f.renta_anual_neta)

\* the figures of a rent of 800 at 21 % and 19 % have been read
C10_Witness ==
    /\ calc.figures # Null
    /\ calc.instance.renta_mensual = Dec(800, 0)
    /\ calc.instance.iva_porcentaje = Dec(21, 0)
    /\ calc.instance.irpf_porcentaje = Dec(19, 0)
    /\ calc.figures.renta_anual_neta = Dec(7776, 0)
    /\ calc.figures.iva_total = Dec(2016, 0)

(***************************************************************************)
(* Properties of the figures with expenses (under SpecFigures).            *)
(***************************************************************************)
\* the sum of the amounts of the rows 1..n of the expense table that belong
\* to property pk
RECURSIVE ExpenseSumUpTo(_, _)
ExpenseSumUpTo(pk, n) ==
    IF n = 0 THEN Zero
    ELSE DecAdd(IF n \in DOMAIN gastos /\ gastos[n].inmueble = pk
                THEN gastos[n].cantidad ELSE Zero,
                ExpenseSumUpTo(pk, n - 1))

ExpenseSum(pk) == IF pk = 0 THEN Zero ELSE ExpenseSumUpTo(pk, nextGastoId - 1)

\* C11: for an instance with a monthly rent, net rent after expenses is the
\* annual net rent minus the sum of the amounts of all expenses of the
\* property, the sum being 0 when it has none or is not persisted; the
\* result is a negative amount when the expenses exceed the net rent.
C11_NetAfterExpenses ==
    LET self == calc.instance
        f == calc.figures
    IN  (f # Null /\ self.renta_mensual # Null)
        => /\ f.gastos_totales = ExpenseSum(self.pk)
           /\ f.renta_neta_con_gastos = DecSub(f.renta_anual_neta, ExpenseSum(self.pk))
           /\ ~DecLe(ExpenseSum(self.pk), f.renta_anual_neta) => f.renta_neta_con_gastos.c < 0

\* the figures of a persisted property whose expenses exceed its net rent
\* have been read, and the net rent after expenses is negative
C11_Witness ==
    /\ calc.figures # Null
    /\ calc.instance.pk = 1
    /\ calc.instance.renta_mensual # Null
    /\ GastosOf(1) # {}
    /\ calc.figures.renta_neta_con_gastos.c < 0

\* C12, as the specification states it: an instance whose monthly rent is
\* unset yields 0 for each of the six derived figures, whatever its
\* percentages and whatever expenses are recorded against it.
C12_AsStated ==
    LET f == calc.figures
    IN  (f # Null /\ calc.instance.renta_mensual = Null)
        => /\ f.renta_anual_bruta = Zero
           /\ f.iva_total = Zero
           /\ f.irpf_total = Zero
           /\ f.renta_anual_neta = Zero
           /\ f.gastos_totales = Zero
           /\ f.renta_neta_con_gastos = Zero

\* C12, amended: an instance whose monthly rent is unset yields 0 for annual
\* gross rent, VAT amount, IRPF amount, annual net rent and net rent after
\* expenses, whatever its percentages and expenses; its total expenses are
\* the sum of the expenses recorded against it, 0 only when it has none or
\* is not persisted.
C12_UnsetRentZero ==
    LET f == calc.figures
    IN  (f # Null /\ calc.instance.renta_mensual = Null)
        => /\ f.renta_anual_bruta = Zero
           /\ f.iva_total = Zero
           /\ f.irpf_total = Zero
           /\ f.renta_anual_neta = Zero
           /\ f.gastos_totales = ExpenseSum(calc.instance.pk)
           /\ f.renta_neta_con_gastos = Zero

\* the figures of a persisted instance with expenses have been read after
\* its monthly rent was unset
C12_Witness ==
    /\ calc.figures # Null
    /\ calc.instance.renta_mensual = Null
    /\ calc.instance.pk = 1
    /\ GastosOf(1) # {}
    /\ calc.figures.renta_neta_con_gastos = Zero

\* C13: monthly rent 800.00, VAT 21 %, IRPF 19 % and expenses totalling
\* 500.00 yield annual_gross 9600.00, vat 2016.00, irpf 1824.00, net 7776.00
\* and net_after_expenses 7276.00.
C13_Example ==
    LET self == calc.instance
        f == calc.figures
    IN  (/\ f # Null
         /\ self.renta_mensual = Dec(80000, 2)
         /\ self.iva_porcentaje = Dec(21, 0)
         /\ self.irpf_porcentaje = Dec(19, 0)
         /\ ExpenseSum(self.pk) = Dec(50000, 2))
        => /\ f.renta_anual_bruta = Dec(960000, 2)
           /\ f.iva_total = Dec(201600, 2)
           /\ f.irpf_total = Dec(182400, 2)
           /\ f.renta_anual_neta = Dec(777600, 2)
           /\ f.renta_neta_con_gastos = Dec(727600, 2)

\* the figures of the example have been read, the 500.00 being two expenses
\* of 250.00
C13_Witness ==
    /\ calc.figures # Null
    /\ calc.instance.pk = 1
    /\ calc.instance.renta_mensual = Dec(800, 0)
    /\ calc.instance.iva_porcentaje = Dec(21, 0)
    /\ calc.instance.irpf_porcentaje = Dec(19, 0)
    /\ Cardinality(GastosOf(1)) = 2
    /\ ExpenseSum(1) = Dec(500, 0)
    /\ calc.figures.renta_neta_con_gastos = Dec(7276, 0)

(***************************************************************************)
(* Properties of the reports and the detail view (under SpecRead).         *)
(***************************************************************************)
\* the sum of F(pk) over the properties 1..n that the user sees
RECURSIVE SumVisibleUpTo(_, _, _)
SumVisibleUpTo(F(_), user, n) ==
    IF n = 0 THEN Zero
    ELSE DecAdd(IF n \in get_user_inmuebles(user) THEN F(n) ELSE Zero,
                SumVisibleUpTo(F, user, n - 1))

SumVisible(F(_), user) == SumVisibleUpTo(F, user, nextInmuebleId - 1)

NetAfterExpensesOf(pk) ==
    DecSub(DecSub(renta_anual_bruta(inmuebles[pk]), irpf_total(inmuebles[pk])),
           ExpenseSum(pk))

GrossOf(pk) == renta_anual_bruta(inmuebles[pk])

ReportGrossAndExpenseTotals ==
    (request.view = "reportes" /\ response.status = "render")
    => /\ response.context.renta_total = SumVisible(GrossOf, session)
       /\ response.context.gastos_total = SumVisible(ExpenseSum, session)

\* the sum of the totals of the groups of a dictionary of groups
GroupTotalSum(groups) ==
    SumOver([k \in DOMAIN groups |-> groups[k].total], DOMAIN groups)

\* the sum of the counts of the groups of a dictionary of groups
RECURSIVE GroupCountSumOver(_, _)
GroupCountSumOver(groups, keys) ==
    IF keys = {} THEN 0
    ELSE LET k == CHOOSE x \in keys : TRUE
         IN  groups[k].count + GroupCountSumOver(groups, keys \ {k})

GroupCountSum(groups) == GroupCountSumOver(groups, DOMAIN groups)

\* C20: in the rendered detail page of a property every expense of the
\* property is in one category group and one month group: the per-category
\* totals, the per-month totals and the overall total have the same sum,
\* the sum of the property's expense amounts, and the per-category counts
\* and the per-month counts each add up to the number of its expenses.
C20_DetailPartitions ==
    LET ctx == response.context
        gs == GastosOf(request.pk)
    IN  (request.view = "inmueble_detail" /\ response.status = "render")
        => /\ ctx.gastos_total = ExpenseSum(request.pk)
           /\ GroupTotalSum(ctx.gastos_por_categoria) = ctx.gastos_total
           /\ GroupTotalSum(ctx.gastos_por_mes) = ctx.gastos_total
           /\ ctx.gastos_count = Cardinality(gs)
           /\ GroupCountSum(ctx.gastos_por_categoria) = ctx.gastos_count
           /\ GroupCountSum(ctx.gastos_por_mes) = ctx.gastos_count
           /\ \A g \in gs :
                 /\ categoria_display(gastos[g].categoria) \in DOMAIN ctx.gastos_por_categoria
                 /\ TruncMonth(gastos[g].fecha) \in DOMAIN ctx.gastos_por_mes

\* the detail page of a property with two expenses of different categories
\* in the same month, on different days, has been rendered
C20_Witness ==
    /\ request.view = "inmueble_detail"
    /\ response.status = "render"
    /\ response.context.gastos_count = 2
    /\ Cardinality(DOMAIN response.context.gastos_por_categoria) = 2
    /\ Cardinality(DOMAIN response.context.gastos_por_mes) = 1
    /\ \E g, h \in GastosOf(request.pk) : gastos[g].fecha # gastos[h].fecha

(***************************************************************************)
(* Properties of the dashboard and the JSON API (under SpecApi).           *)
(***************************************************************************)
GrossIfActive(pk) == IF inmuebles[pk].activo THEN GrossOf(pk) ELSE Zero

ExpensesIfActive(pk) == IF inmuebles[pk].activo THEN ExpenseSum(pk) ELSE Zero

C17_PercentagesValidated ==
    [][/\ (/\ request'.view \in {"inmueble_create", "inmueble_update"}
           /\ request'.method = "POST"
           /\ is_authenticated(session)
           /\ request'.view = "inmueble_update"
                 => (request'.pk \in DOMAIN inmuebles
                     /\ check_inmueble_permission(session, request'.pk))
           /\ ~(InRange(request'.form.iva_porcentaje)
                /\ InRange(request'.form.irpf_porcentaje)))
          => (response'.status = "render" /\ store' = store)
       /\ \A pk \in DOMAIN inmuebles' :
             /\ InRange(inmuebles'[pk].iva_porcentaje)
             /\ InRange(inmuebles'[pk].irpf_porcentaje)]_vars

(***************************************************************************)
(* Properties of the tables behind the admin site (under SpecAdmin).       *)
(***************************************************************************)
SameDeclaracion(a, b) ==
    a.socio = b.socio /\ a.anio = b.anio /\ a.trimestre = b.trimestre

\* C18: no two quarterly declarations have the same owner, year and
\* quarter; the insertion of a declaration whose owner, year and quarter a
\* stored declaration has is rejected and leaves the table as it was.
C18_OneDeclaracionPerQuarter ==
    [][/\ \A p, q \in DOMAIN declaraciones' :
             SameDeclaracion(declaraciones'[p], declaraciones'[q]) => p = q
       /\ (/\ request'.view = "admin_declaracion_add"
           /\ request'.method = "POST"
           /\ \E q \in DOMAIN declaraciones :
                 SameDeclaracion(declaraciones[q], request'.form))
          => (declaraciones' = declaraciones /\ response'.level # "success")]_vars

\* an administrator has posted to the add page a declaration for the owner,
\* year and quarter of a stored one, and got the form back with its errors
C18_Witness ==
    /\ request.view = "admin_declaracion_add"
    /\ request.method = "POST"
    /\ response = Render("admin/change_form.html", "form errors")
    /\ \E q \in DOMAIN declaraciones : SameDeclaracion(declaraciones[q], request.form)
    /\ Cardinality(DOMAIN declaraciones) = 2

\* C19: the participation percentage of every owner is within [0, 100],
\* 100 until it is changed; a submission of a value outside [0, 100] is
\* rejected and leaves the stored value as it was.
C19_ParticipacionInRange ==
    [][/\ \A s \in Socios : InRange(participacion'[s])
       /\ (/\ request'.view = "admin_socio_change"
           /\ request'.method = "POST"
           /\ ~InRange(request'.form.porcentaje_participacion))
          => (participacion' = participacion /\ response'.level # "success")
       /\ \A s \in Socios :
             participacion'[s] # participacion[s]
             => (/\ request'.view = "admin_socio_change"
                 /\ request'.form.socio = s
                 /\ participacion'[s] = request'.form.porcentaje_participacion)]_vars

\* an administrator has posted 150 as the percentage of an owner whose
\* stored percentage is still the default, and got the form back
C19_Witness ==
    /\ request.view = "admin_socio_change"
    /\ request.method = "POST"
    /\ request.form.porcentaje_participacion = Dec(150, 0)
    /\ response = Render("admin/change_form.html", "form errors")
    /\ participacion[request.form.socio] = DefaultParticipacion
    /\ \E s \in Socios : participacion[s] = Dec(50, 0)

(***************************************************************************)
(* Further properties of the views (under Spec).                           *)
(***************************************************************************)
\* the routes whose URL names a property or an expense
IdRoutes ==
    {"inmueble_detail", "inmueble_update", "inmueble_delete",
     "gasto_create", "gasto_update", "gasto_delete"}

\* a request of a logged-in user for a route whose URL names a row that
\* does not exist is answered with the not-found response and leaves the
\* store as it was
MissingRowNotFound ==
    [][(/\ request'.view \in IdRoutes
        /\ is_authenticated(session)
        /\ InmuebleOfRequest(request') = 0)
       => (response' = NotFound /\ UNCHANGED store)]_vars

\* C21: a detail, edit or delete request of a logged-in user that names a
\* property or expense id that does not exist, and an expense-create
\* request for a property id that does not exist, is answered with the
\* not-found response and leaves the store unchanged; no request for these
\* routes ends in an error other than not-found and permission-denied.
C21_NotFoundOnly ==
    [][request'.view \in IdRoutes
       => /\ (is_authenticated(session) /\ InmuebleOfRequest(request') = 0)
                => (response' = NotFound /\ UNCHANGED store)
          /\ response'.status # "server_error"]_vars

\* C22: for every user and every property of the store,
\* check_inmueble_permission(user, property) is true if and only if the
\* property is in the collection that get_user_inmuebles(user) returns.
C22_HelpersAgree ==
    \A u \in Users : \A pk \in DOMAIN inmuebles :
        check_inmueble_permission(u, pk) <=> pk \in get_user_inmuebles(u)

\* the two helpers agree for every user who is not both an administrator
\* and an owner
HelpersAgreeOtherwise ==
    \A u \in Users : \A pk \in DOMAIN inmuebles :
        ~(is_staff(u) /\ SocioOf(u) # None)
        => (check_inmueble_permission(u, pk) <=> pk \in get_user_inmuebles(u))

\* the expenses of a property, by id
ExpensesOf(pk) == [g \in GastosOf(pk) |-> gastos[g]]

\* the routes of the application other than login that Spec has
ApplicationRoutes == MutatingViews \cup {"inmueble_detail"}

\* C23: a request of a logged-in user who is no administrator leaves every
\* existing property the user has no access to as it was, with its owner
\* set and its expenses, and leaves the user without access to it; so no
\* sequence of such requests gives the user access to the property or
\* changes it.
C23_NoEscalation ==
    [][\A pk \in DOMAIN inmuebles :
          (/\ request'.view \in ApplicationRoutes
           /\ is_authenticated(session)
           /\ ~is_staff(session)
           /\ ~check_inmueble_permission(session, pk))
          => /\ pk \in DOMAIN inmuebles'
             /\ inmuebles'[pk] = inmuebles[pk]
             /\ ExpensesOf(pk)' = ExpensesOf(pk)
             /\ ~(check_inmueble_permission(session, pk))'
             /\ pk \notin (get_user_inmuebles(session))']_vars

\* an owner who is no administrator and has a property of their own has
\* posted an edit of a property of another owner that has an expense, and
\* has been sent to the property list with the error
C23_Witness ==
    /\ request.view = "inmueble_update"
    /\ request.method = "POST"
    /\ is_authenticated(session) /\ ~is_staff(session)
    /\ request.pk \in DOMAIN inmuebles
    /\ ~check_inmueble_permission(session, request.pk)
    /\ GastosOf(request.pk) # {}
    /\ get_user_inmuebles(session) # {}
    /\ response.status = "redirect" /\ response.level = "error"

\* no request for a mutating route turns the active flag of a stored
\* property from false to true
NeverReactivated ==
    [][\A pk \in DOMAIN inmuebles :
          (request'.view \in MutatingViews /\ ~inmuebles[pk].activo)
          => (pk \in DOMAIN inmuebles' => ~inmuebles'[pk].activo)]_vars

\* C24: once the active flag of a property is false, no property or expense
\* request (create, edit, delete) sets it back to true, and a delete request
\* on the inactive property leaves it stored and inactive with its expenses
\* unchanged.
C24_DeactivationPermanent ==
    [][\A pk \in DOMAIN inmuebles :
          (request'.view \in MutatingViews /\ ~inmuebles[pk].activo)
          => /\ pk \in DOMAIN inmuebles' => ~inmuebles'[pk].activo
             /\ (request'.view = "inmueble_delete" /\ request'.pk = pk)
                   => /\ pk \in DOMAIN inmuebles'
                      /\ ~inmuebles'[pk].activo
                      /\ ExpensesOf(pk)' = ExpensesOf(pk)]_vars

====
